---- MODULE Spec2Model ----
(***************************************************************************)
(* kgpy/img/dspk: joint histogram, cumulative distribution and the         *)
(* adaptive threshold (exact thresholds plus extrapolation into columns    *)
(* with too few samples), modelled as a state machine.                     *)
(*                                                                         *)
(* Number representation.  The arrays of the program hold C `float`s.      *)
(*   - hist, cumd hold a pair <<n, d>>, d > 0, standing for the single     *)
(*     precision quotient fl(n / d); a raw count c is <<c, 1>>.            *)
(*   - cnts holds whole numbers (exact in single precision below 2^24).    *)
(*   - t9, t1 and the slopes hold a float v as the integer v * 2^25.       *)
(*   - tmin, tmax and thresh hold a float v as the integer v * 2^27.       *)
(* Single precision arithmetic is round-to-nearest-even on 24 bits, see    *)
(* Round32.                                                                *)
(***************************************************************************)
EXTENDS Integers, FiniteSets, Sequences, TLC

VARIABLES
    entry,      \* the function the caller invoked
    pc,         \* control location inside it
    hsz,        \* db->hsz, [x, y, z]
    axis,       \* the axis argument
    gmap,       \* db->gmap, per pixel
    data,       \* db->data, per pixel
    lmed,       \* local statistic, per pixel
    hist,       \* db->hist, flat, stride (1, hsz.x, hsz.x*hsz.y)
    cumd,       \* db->cumd, same shape as hist
    cnts,       \* db->cnts, flat, stride (1, hsz.x)
    t9,         \* db->t9, flat, stride (1, hsz.x)
    t1,         \* db->t1
    tmin,       \* lower cutoff argument
    tmax,       \* upper cutoff argument
    pend,       \* iterations of the running parallel loop not yet executed
    max_cnt,    \* calc_hist_center: reduction result
    max_ind,    \* calc_hist_center: index written by the second loop
    x0,         \* anchor column
    theta,      \* median_extrapolation: index of the sweep angle
    theta_min,  \* angle returned for t9 (sweep index)
    theta_max,  \* angle returned for t1 (sweep index)
    min_cnts,   \* min_samples results <<for tmin, for tmax>>
    t_pre,      \* history: the curve when apply_extrap_thresh was called
    t_mid,      \* history: the curve after the first application
    steps,      \* history: iterations of the angle sweep executed
    dmin,       \* db->dmin
    dmax,       \* db->dmax
    hist_pre    \* history: the raw histogram when the distribution was built

vars == <<entry, pc, hsz, axis, gmap, data, lmed, hist, cumd, cnts, t9, t1,
          tmin, tmax, pend, max_cnt, max_ind, x0, theta, theta_min,
          theta_max, min_cnts, t_pre, t_mid, steps, dmin, dmax, hist_pre>>

----------------------------------------------------------------------------
(* Single precision helpers *)

Min(a, b) == IF a < b THEN a ELSE b

Max(a, b) == IF a > b THEN a ELSE b

\* 2^25: one unit of a threshold-curve value
Unit == 2^25

\* 2^27: one unit of a cutoff probability
TUnit == 2^27

\* spacing of the floats around a magnitude of a units (a < 2^24 is exact)
RECURSIVE Quantum(_)
Quantum(a) == IF a < 2^24 THEN 1 ELSE 2 * Quantum(a \div 2)

\* floor(log2(n)), n >= 1
RECURSIVE Log2(_)
Log2(n) == IF n < 2 THEN 0 ELSE 1 + Log2(n \div 2)

\* round a >= 0 to the nearest multiple of q, ties to the even multiple
RoundNearestEven(a, q) ==
    LET lo == (a \div q) * q
        rem == a - lo
    IN  IF 2 * rem < q THEN lo
        ELSE IF 2 * rem > q THEN lo + q
        ELSE IF (lo \div q) % 2 = 0 THEN lo ELSE lo + q

\* the float nearest to the exact value r (in units)
Round32(r) ==
    IF r >= 0 THEN RoundNearestEven(r, Quantum(r))
    ELSE -RoundNearestEven(-r, Quantum(-r))

\* float * int, float - float, float + float
FMul(m, i) == Round32(m * i)

FSub(a, b) == Round32(a - b)

FAdd(a, b) == Round32(a + b)

\* (int) of a float: truncation toward zero
TruncToInt(v) == IF v >= 0 THEN v \div Unit ELSE -((-v) \div Unit)

\* (float) of an int
IntToFloat(i) == i * Unit

\* (int)(a / b) for floats a = an (a whole number) and b = bn / 2^27:
\* the quotient is rounded to single precision before it is truncated
FDivToInt(an, bn) ==
    LET A == an * TUnit
        n == A \div bn
        r == A % bn
        K == 2^(24 - Log2(n))
    IN  IF r # 0 /\ (bn - r) <= bn \div K THEN n + 1 ELSE n

----------------------------------------------------------------------------
(* threshold.cpp: min_samples *)

sigma == 15

\* variant: the interval taken as the larger of the two tail widths
min_samples_fmax(thresh) ==
    LET interval == Max(Round32(TUnit - thresh), thresh)
    IN  FDivToInt(sigma, interval)

min_samples(thresh) ==
    LET interval == Min(Round32(TUnit - thresh), thresh)
    IN  FDivToInt(sigma, interval)

\* the float nearest to the decimal n / d, as the caller's literal 0.1f is
F32(n, d) ==
    LET q == (n * TUnit) \div d
        r == (n * TUnit) % d
    IN  Round32(IF 2 * r >= d THEN q + 1 ELSE q)

\* cutoff probabilities a caller passes: 0.1f, 0.2f, ... 0.9f
Cutoffs == {F32(1, 10), F32(1, 5), F32(1, 4), F32(3, 10), F32(2, 5), F32(1, 2),
            F32(3, 5), F32(7, 10), F32(3, 4), F32(4, 5), F32(9, 10)}

----------------------------------------------------------------------------
(* Data model: dimensions, strides, quotient-valued floats *)

\* db->tsz: (statistic bins, number of axes)
tsz == [x |-> hsz.x, y |-> hsz.z]

Columns == 0 .. hsz.x - 1

Rows == 0 .. hsz.y - 1

\* linear index into hist / cumd: hz * axis + hy * y + hx * x
HIndex(ax, y, x) ==
    LET hx == 1
        hy == hx * hsz.x
        hz == hy * hsz.y
    IN  hz * ax + hy * y + hx * x

\* linear index into t1 / t9 / cnts: tz * axis + tx * x
TIndex(ax, x) ==
    LET tx == 1
        tz == tx * hsz.x
    IN  tz * ax + tx * x

\* the float with the whole value c
Whole(c) == <<c, 1>>

\* a / sum in single precision, a and sum whole
FDiv(a, sum) == <<a[1], sum>>

\* exact comparison of two quotients (rounding is monotone)
QLeq(a, b) == a[1] * b[2] <= b[1] * a[2]

\* fl(n / d) > T for 0 <= n <= d and a float T = T / 2^27 in 0 or [1/16, 1]:
\* the quotient rounds above T iff it lies beyond the midpoint between T and
\* the next float, or on the midpoint when T's mantissa is odd
FGreater(c, T) ==
    LET n == c[1]
        d == c[2]
        u == Quantum(T)
        M == 2 * T + u
        A == n * 2^14
        Q1 == A \div d
        B == (A % d) * 2^14
        Q2 == B \div d
        R2 == B % d
        X == Q1 * 2^14 + Q2
    IN  IF T = 0 THEN n > 0
        ELSE IF n >= d THEN T < TUnit
        ELSE \/ X > M
             \/ X = M /\ R2 > 0
             \/ X = M /\ R2 = 0 /\ (T \div u) % 2 = 1

----------------------------------------------------------------------------
(* distribution.cpp: data2hist, init_histogram, calc_histogram *)

Pixels == DOMAIN gmap

\* floor((dval - m_min) / delta), delta = (m_max - m_min) / (nbins - 1);
\* the values and delta are whole numbers here, so the quotient is exact
data2hist(dval, m_min, m_max, nbins) ==
    LET delta == (m_max - m_min) \div (nbins - 1)
    IN  (dval - m_min) \div delta

\* variant: a store of 1.0f that does not read the bin, as a lost update leaves it
FInc_store(c) == Whole(1)

\* hist[H] + 1.0f
FInc(c) == <<c[1] + 1, c[2]>>

InitHistogram ==
    /\ pc = "init_histogram"
    /\ hist' = [L \in DOMAIN hist |-> Whole(0)]
    /\ pend' = Pixels
    /\ pc' = "calc_histogram"
    /\ UNCHANGED <<entry, hsz, axis, gmap, data, lmed, cumd, cnts, t9, t1,
                   tmin, tmax, max_cnt, max_ind, x0, theta, theta_min,
                   theta_max, min_cnts, t_pre, t_mid, steps, dmin, dmax, hist_pre>>

\* one iteration of the collapsed pixel loop; the update of hist[H] is atomic
HistPixel(L) ==
    /\ pc = "calc_histogram"
    /\ L \in pend
    /\ IF gmap[L] = "bad_pix"
       THEN hist' = hist
       ELSE LET X == data2hist(lmed[L], dmin, dmax, hsz.x)
                Y == data2hist(data[L], dmin, dmax, hsz.y)
                H == HIndex(axis, Y, X)
            IN  hist' = [hist EXCEPT ![H] = FInc(@)]
    /\ pend' = pend \ {L}
    /\ pc' = IF pend' = {} THEN "done" ELSE pc
    /\ UNCHANGED <<entry, hsz, axis, gmap, data, lmed, cumd, cnts, t9, t1,
                   tmin, tmax, max_cnt, max_ind, x0, theta, theta_min,
                   theta_max, min_cnts, t_pre, t_mid, steps, dmin, dmax, hist_pre>>

----------------------------------------------------------------------------
(* distribution.cpp: calc_cumulative_distribution *)

\* sum after the iterations 0 .. y of the first sequential loop of column x
RECURSIVE RunningSum(_, _, _)
RunningSum(h, x, y) ==
    IF y < 0 THEN 0 ELSE RunningSum(h, x, y - 1) + h[HIndex(axis, y, x)][1]

\* variant: the division without the branch on sum; <<0, 0>> stands for 0 / 0
Normalize_nobranch(v, sum) == FDiv(v, sum)

\* cumd[H] / sum, hist[H] / sum, or 0.0f when sum == 0.0f
Normalize(v, sum) == IF sum # 0 THEN FDiv(v, sum) ELSE Whole(0)

InColumn(H, x) ==
    \E y \in Rows : H = HIndex(axis, y, x)

RowOf(H) == (H \div hsz.x) % hsz.y

\* where control goes when the parallel loop of stage `stage` has finished
StageAfter(stage) ==
    CASE stage = "cumd" -> "exact"
      [] stage = "exact" ->
            IF entry = "calc_thresh" THEN "center_max" ELSE "done"
      [] stage = "center_ind" ->
            IF entry = "calc_thresh" THEN "median9" ELSE "done"
      [] stage = "median9" ->
            IF entry = "calc_thresh" THEN "median1" ELSE "done"
      [] stage = "median1" -> "apply9"
      [] stage = "apply9" ->
            IF entry = "calc_thresh" THEN "apply1" ELSE "reapply9"
      [] stage = "apply1" -> "done"
      [] stage = "reapply9" -> "done"

\* one iteration (column x) of the parallel loop
CumdColumn(x) ==
    /\ pc = "cumd"
    /\ x \in pend
    /\ LET sum == RunningSum(hist, x, hsz.y - 1)
           C == x + hsz.x * axis
       IN  /\ cumd' = [H \in DOMAIN cumd |->
                         IF InColumn(H, x)
                         THEN Normalize(Whole(RunningSum(hist, x, RowOf(H))), sum)
                         ELSE cumd[H]]
           /\ hist' = [H \in DOMAIN hist |->
                         IF InColumn(H, x) THEN Normalize(hist[H], sum)
                         ELSE hist[H]]
           /\ cnts' = [cnts EXCEPT ![C] = sum]
    /\ pend' = IF pend = {x} THEN Columns ELSE pend \ {x}
    /\ pc' = IF pend = {x} THEN StageAfter("cumd") ELSE pc
    /\ UNCHANGED <<entry, hsz, axis, gmap, data, lmed, t9, t1,
                   tmin, tmax, max_cnt, max_ind, x0, theta, theta_min,
                   theta_max, min_cnts, t_pre, t_mid, steps, dmin, dmax, hist_pre>>

----------------------------------------------------------------------------
(* threshold.cpp: calc_exact_thresh *)

\* the sequential scan `for (y = from; y < hsz.y; y++) if (cumd[H] > T) break`:
\* the value of y when the loop is left
RECURSIVE Scan(_, _, _)
Scan(x, from, T) ==
    IF from >= hsz.y THEN from
    ELSE IF FGreater(cumd[HIndex(axis, from, x)], T) THEN from
    ELSE Scan(x, from + 1, T)

\* variant: the second scan started one bin after the first crossing
UpperScanStart_next(y) == y + 1

\* where the second scan of a column starts
UpperScanStart(y) == y

\* one iteration (column x) of the parallel loop
ExactColumn(x) ==
    /\ pc = "exact"
    /\ x \in pend
    /\ LET T == TIndex(axis, x)
           y == Scan(x, 0, tmin)
           Y == Scan(x, UpperScanStart(y), tmax)
       IN  /\ t9' = [t9 EXCEPT ![T] =
                        IF y < hsz.y THEN IntToFloat(y - 1) ELSE IntToFloat(x - 1)]
           /\ t1' = [t1 EXCEPT ![T] =
                        IF Y < hsz.y THEN IntToFloat(Y) ELSE IntToFloat(x)]
    /\ pend' = pend \ {x}
    /\ pc' = IF pend' = {} THEN StageAfter("exact") ELSE pc
    /\ UNCHANGED <<entry, hsz, axis, gmap, data, lmed, hist, cumd, cnts,
                   tmin, tmax, max_cnt, max_ind, x0, theta, theta_min,
                   theta_max, min_cnts, t_pre, t_mid, steps, dmin, dmax, hist_pre>>

----------------------------------------------------------------------------
(* threshold.cpp: calc_hist_center *)

\* reduction(max:max_cnt) over the columns, from max_cnt = -10.0f
RECURSIVE MaxCount(_, _)
MaxCount(X, m) ==
    IF X >= tsz.x THEN m
    ELSE MaxCount(X + 1, IF cnts[TIndex(axis, X)] > m THEN cnts[TIndex(axis, X)] ELSE m)

CenterMax ==
    /\ pc = "center_max"
    /\ max_cnt' = MaxCount(0, -10)
    /\ max_ind' = 0
    /\ pend' = 0 .. tsz.x - 1
    /\ pc' = "center_ind"
    /\ UNCHANGED <<entry, hsz, axis, gmap, data, lmed, hist, cumd, cnts, t9, t1,
                   tmin, tmax, x0, theta, theta_min,
                   theta_max, min_cnts, t_pre, t_mid, steps, dmin, dmax, hist_pre>>

\* one iteration of the second parallel loop: every iteration whose column
\* holds the maximum stores its index into the shared max_ind
CenterIndex(X) ==
    /\ pc = "center_ind"
    /\ X \in pend
    /\ max_ind' = IF cnts[TIndex(axis, X)] = max_cnt THEN X ELSE max_ind
    /\ pend' = pend \ {X}
    /\ IF pend' = {}
       THEN /\ x0' = max_ind'
            /\ pc' = StageAfter("center_ind")
       ELSE UNCHANGED <<x0, pc>>
    /\ UNCHANGED <<entry, hsz, axis, gmap, data, lmed, hist, cumd, cnts, t9, t1,
                   tmin, tmax, max_cnt, theta, theta_min,
                   theta_max, min_cnts, t_pre, t_mid, steps, dmin, dmax, hist_pre>>

----------------------------------------------------------------------------
(* threshold.cpp: calc_intercept, median_extrapolation, apply_extrap_thresh *)

\* tan(theta) in single precision at each iteration of
\*   for (float theta = 0.0f; theta < M_PI/2; theta += M_PI/(hsz.x + hsz.y))
\* for N = hsz.x + hsz.y, in units of 2^-25
SweepSlopes(N) ==
    CASE N = 2 -> <<0>>
      [] N = 3 -> <<0, 58117984>>
      [] N = 4 -> <<0, 33554432>>
      [] N = 5 -> <<0, 24378724, 103269936>>
      [] N = 6 -> <<0, 19372662, 58117984>>
      [] N = 7 -> <<0, 16158963, 42075928, 147011536>>
      [] N = 8 -> <<0, 13898701, 33554432, 81007568>>
      [] N = 9 -> <<0, 12212814, 28155510, 58117984, 190296720>>
      [] N = 10 -> <<0, 10902496, 24378724, 46183716, 103269936>>
      [] N = 11 -> <<0, 9852470, 21564124, 38723880, 73473952, 233376160>>

\* number of angles the sweep visits
SweepLen == Len(SweepSlopes(hsz.x + hsz.y))

\* tan of the k-th angle of the sweep, k = 0, 1, ...
Tan(k) == SweepSlopes(hsz.x + hsz.y)[k + 1]

\* y0 - m * x0
calc_intercept(ax0, y0, m) == FSub(IntToFloat(y0), FMul(m, ax0))

\* m * x + b
LineAt(m, b, x) == FAdd(FMul(m, x), b)

\* the value of the line at column x as one iteration computes it from the
\* curve t it sees: y0 = (int) t[x0], b = calc_intercept(x0, y0, m)
LineThroughAnchor(t, ax0, k, x) ==
    LET y0 == TruncToInt(t[TIndex(axis, ax0)])
        m == Tan(k)
        b == calc_intercept(ax0, y0, m)
    IN  LineAt(m, b, x)

\* columns counted by the reduction of one sweep iteration
Significant(thresh) ==
    {x \in Columns : cnts[TIndex(axis, x)] > min_samples(thresh)}

usum(t, thresh, ax0, k) ==
    Cardinality({x \in Significant(thresh) :
                    t[TIndex(axis, x)] > LineThroughAnchor(t, ax0, k, x)})

lsum(t, thresh, ax0, k) ==
    Cardinality({x \in Significant(thresh) :
                    ~(t[TIndex(axis, x)] > LineThroughAnchor(t, ax0, k, x))})

\* lsum / (usum + lsum) >= 0.50; 0 / 0 is NaN and compares false
RatioReached(l, u) == l + u > 0 /\ 2 * l >= l + u

Curve(c) == IF c = "9" THEN t9 ELSE t1

Thresh(c) == IF c = "9" THEN tmin ELSE tmax

\* one iteration of the angle sweep of median_extrapolation(t, thresh, x0)
MedianSweep(c) ==
    /\ pc = "median" \o c
    /\ theta < SweepLen
    /\ steps' = steps + 1
    /\ IF RatioReached(lsum(Curve(c), Thresh(c), x0, theta),
                       usum(Curve(c), Thresh(c), x0, theta))
       THEN /\ theta_min' = IF c = "9" THEN theta ELSE theta_min
            /\ theta_max' = IF c = "1" THEN theta ELSE theta_max
            /\ theta' = 0
            /\ pc' = StageAfter(pc)
            /\ pend' = Columns
       ELSE /\ theta' = theta + 1
            /\ UNCHANGED <<theta_min, theta_max, pc, pend>>
    /\ UNCHANGED <<entry, hsz, axis, gmap, data, lmed, hist, cumd, cnts, t9, t1,
                   tmin, tmax, max_cnt, max_ind, x0,
                   min_cnts, t_pre, t_mid, dmin, dmax, hist_pre>>

\* the sweep is over: return 0.0
MedianDefault(c) ==
    /\ pc = "median" \o c
    /\ theta >= SweepLen
    /\ theta_min' = IF c = "9" THEN 0 ELSE theta_min
    /\ theta_max' = IF c = "1" THEN 0 ELSE theta_max
    /\ theta' = 0
    /\ pc' = StageAfter(pc)
    /\ pend' = Columns
    /\ UNCHANGED <<entry, hsz, axis, gmap, data, lmed, hist, cumd, cnts, t9, t1,
                   tmin, tmax, max_cnt, max_ind, x0,
                   min_cnts, t_pre, t_mid, steps, dmin, dmax, hist_pre>>

\* fmax(fmin(v, hsz.y - 1), 0)
Clamp(v) == Max(Min(v, IntToFloat(hsz.y - 1)), 0)

\* the curve after iteration x of the parallel loop of
\* apply_extrap_thresh(t, thresh, x0, theta): the iteration reads t[x0] itself
ApplyIteration(t, thresh, ax0, k, x) ==
    IF cnts[TIndex(axis, x)] < min_samples(thresh)
    THEN [t EXCEPT ![TIndex(axis, x)] = Clamp(LineThroughAnchor(t, ax0, k, x))]
    ELSE t

ApplyColumn(c, x) ==
    /\ pc \in {"apply" \o c, "reapply" \o c}
    /\ x \in pend
    /\ LET k == IF c = "9" THEN theta_min ELSE theta_max
           t == ApplyIteration(Curve(c), Thresh(c), x0, k, x)
       IN  /\ t9' = IF c = "9" THEN t ELSE t9
           /\ t1' = IF c = "1" THEN t ELSE t1
    /\ pend' = IF pend = {x} /\ StageAfter(pc) # "done" THEN Columns ELSE pend \ {x}
    /\ pc' = IF pend = {x} THEN StageAfter(pc) ELSE pc
    /\ t_mid' = IF pend = {x} /\ pc = "apply9" THEN t9' ELSE t_mid
    /\ UNCHANGED <<entry, hsz, axis, gmap, data, lmed, hist, cumd, cnts,
                   tmin, tmax, max_cnt, max_ind, x0, theta, theta_min,
                   theta_max, min_cnts, t_pre, steps, dmin, dmax, hist_pre>>

\* a direct call of min_samples for each of the two cutoffs
MinSamplesCall ==
    /\ pc = "min_samples"
    /\ min_cnts' = <<min_samples(tmin), min_samples(tmax)>>
    /\ pc' = "done"
    /\ UNCHANGED <<entry, hsz, axis, gmap, data, lmed, hist, cumd, cnts, t9, t1,
                   tmin, tmax, pend, max_cnt, max_ind, x0, theta, theta_min,
                   theta_max, t_pre, t_mid, steps, dmin, dmax, hist_pre>>

----------------------------------------------------------------------------
(* Initial states: the state in which a caller enters each function *)

\* sizes of the explored configurations
NPix == 2
HistX == 2
HistY == 3
HistZ == 2
DistX == 2
DistY == 3
CenterX == 3
MedianX == 5
MedianY == 3
ApplyX == 3
ApplyY == 3
ThreshX == 3
ThreshY == 3

\* arrays a function does not touch
Untouched ==
    /\ max_cnt = 0 /\ max_ind = 0 /\ theta = 0 /\ steps = 0
    /\ min_cnts = <<0, 0>>

NoPixels ==
    /\ gmap = <<>> /\ data = <<>> /\ lmed = <<>> /\ dmin = 0 /\ dmax = 0

\* a flat array of the given length holding v everywhere
Filled(len, v) == [i \in 0 .. len - 1 |-> v]

\* caller: init_histogram(db); calc_histogram(db, lmed, axis), on a histogram
\* that still holds the counts of an earlier pass
InitHist ==
    /\ entry = "calc_histogram"
    /\ pc = "init_histogram"
    /\ hsz = [x |-> HistX, y |-> HistY, z |-> HistZ]
    /\ axis \in 0 .. HistZ - 1
    /\ dmin = 1
    /\ dmax = 1 + (HistX - 1) * (HistY - 1)
    /\ gmap \in [0 .. NPix - 1 -> {"good_pix", "bad_pix"}]
    /\ data \in [0 .. NPix - 1 -> {dmin, dmin + (dmax - dmin) \div 2, dmax}]
    /\ lmed \in [0 .. NPix - 1 -> {dmin, dmin + (dmax - dmin) \div 2, dmax}]
    /\ hist = [L \in 0 .. HistX * HistY * HistZ - 1 |-> Whole(L % 3)]
    /\ hist_pre = hist
    /\ cumd = Filled(HistX * HistY * HistZ, Whole(0))
    /\ cnts = Filled(HistX * HistZ, 0)
    /\ t9 = Filled(HistX * HistZ, 0)
    /\ t1 = Filled(HistX * HistZ, 0)
    /\ tmin = F32(1, 10) /\ tmax = F32(9, 10)
    /\ pend = {} /\ x0 = 0 /\ theta_min = 0 /\ theta_max = 0
    /\ t_pre = t9 /\ t_mid = t9
    /\ Untouched

\* raw counts of one histogram column: empty, one sample in one bin, or one
\* and nine samples in two neighbouring bins, in either order
ColumnShapes(ny) ==
    {c \in [0 .. ny - 1 -> {0, 1, 9}] :
        \/ \A y \in 0 .. ny - 1 : c[y] = 0
        \/ /\ Cardinality({y \in 0 .. ny - 1 : c[y] = 1}) = 1
           /\ Cardinality({y \in 0 .. ny - 1 : c[y] = 9}) <= 1
           /\ \A y \in 0 .. ny - 1 :
                  c[y] = 9 => \E z \in {y - 1, y + 1} \cap (0 .. ny - 1) : c[z] = 1}

\* the histogram slice `ax` built from the columns col, zero elsewhere
SliceOf(col, ax, nx, ny, nz) ==
    [H \in 0 .. nx * ny * nz - 1 |->
        IF H \div (nx * ny) = ax
        THEN Whole(col[H % nx][(H \div nx) % ny])
        ELSE Whole(0)]

\* the cutoffs (tmin, tmax) of a call, tmin <= tmax; 0 and 1 are the ends
CutoffPairs ==
    {<<F32(1, 10), F32(9, 10)>>, <<F32(1, 2), F32(1, 2)>>, <<0, F32(1, 2)>>,
     <<F32(9, 10), TUnit>>, <<F32(1, 10), F32(1, 10)>>, <<TUnit, TUnit>>}

\* caller: calc_cumulative_distribution(db, axis); calc_exact_thresh(db, tmin, tmax, axis)
\* on a histogram of raw counts
InitDist ==
    /\ entry = "calc_exact_thresh"
    /\ pc = "cumd"
    /\ hsz = [x |-> DistX, y |-> DistY, z |-> 2]
    /\ axis = 1
    /\ \E col \in [0 .. DistX - 1 -> ColumnShapes(DistY)] :
            hist = SliceOf(col, axis, DistX, DistY, 2)
    /\ hist_pre = hist
    /\ cumd = Filled(DistX * DistY * 2, Whole(5))
    /\ cnts = Filled(DistX * 2, 7)
    /\ t9 = Filled(DistX * 2, IntToFloat(7))
    /\ t1 = Filled(DistX * 2, IntToFloat(7))
    /\ \E p \in CutoffPairs : tmin = p[1] /\ tmax = p[2]
    /\ pend = 0 .. DistX - 1
    /\ x0 = 0 /\ theta_min = 0 /\ theta_max = 0
    /\ t_pre = t9 /\ t_mid = t9
    /\ NoPixels /\ Untouched

\* caller: min_samples(tmin), min_samples(tmax)
InitMin ==
    /\ entry = "min_samples"
    /\ pc = "min_samples"
    /\ hsz = [x |-> 1, y |-> 1, z |-> 1]
    /\ axis = 0
    /\ tmin \in Cutoffs /\ tmax \in Cutoffs
    /\ hist = Filled(1, Whole(0)) /\ hist_pre = hist /\ cumd = hist
    /\ cnts = Filled(1, 0) /\ t9 = Filled(1, 0) /\ t1 = t9
    /\ pend = {} /\ x0 = 0 /\ theta_min = 0 /\ theta_max = 0
    /\ t_pre = t9 /\ t_mid = t9
    /\ NoPixels /\ Untouched

\* caller: calc_hist_center(db, axis) on arbitrary column counts
InitCenter ==
    /\ entry = "calc_hist_center"
    /\ pc = "center_max"
    /\ hsz = [x |-> CenterX, y |-> 2, z |-> 2]
    /\ axis \in {0, 1}
    /\ \E c \in [0 .. CenterX - 1 -> {0, 100, 200}] :
            cnts = [T \in 0 .. CenterX * 2 - 1 |->
                        IF T \div CenterX = axis THEN c[T % CenterX] ELSE 300]
    /\ hist = Filled(CenterX * 2 * 2, Whole(0)) /\ hist_pre = hist /\ cumd = hist
    /\ t9 = Filled(CenterX * 2, 0) /\ t1 = t9
    /\ tmin = F32(1, 10) /\ tmax = F32(9, 10)
    /\ pend = {} /\ x0 = 0 /\ theta_min = 0 /\ theta_max = 0
    /\ t_pre = t9 /\ t_mid = t9
    /\ NoPixels /\ Untouched

\* the columns holding the largest count of the slice
MaxColumns(c, nx) == {x \in 0 .. nx - 1 : \A z \in 0 .. nx - 1 : c[z] <= c[x]}

\* caller: median_extrapolation(db, t9, tmin, x0, axis) on a curve of whole
\* bin indices as calc_exact_thresh leaves it, anchored at a fullest column
InitMedian ==
    /\ entry = "median_extrapolation"
    /\ pc = "median9"
    /\ hsz = [x |-> MedianX, y |-> MedianY, z |-> 1]
    /\ axis = 0
    /\ cnts \in [0 .. MedianX - 1 -> {0, 200}]
    /\ x0 \in MaxColumns(cnts, MedianX)
    /\ t9 \in [0 .. MedianX - 1 -> {IntToFloat(i) : i \in -1 .. MedianY - 1}]
    /\ t1 = t9
    /\ tmin = F32(1, 2) /\ tmax = F32(1, 2)
    /\ hist = Filled(MedianX * MedianY, Whole(0)) /\ hist_pre = hist /\ cumd = hist
    /\ pend = {} /\ theta_min = 0 /\ theta_max = 0
    /\ t_pre = t9 /\ t_mid = t9
    /\ NoPixels /\ Untouched

\* caller: apply_extrap_thresh(db, t9, tmin, x0, theta, axis), twice, for any
\* anchor column and any angle of the sweep
InitApply ==
    /\ entry = "apply_extrap_thresh"
    /\ pc = "apply9"
    /\ hsz = [x |-> ApplyX, y |-> ApplyY, z |-> 1]
    /\ axis = 0
    /\ cnts \in [0 .. ApplyX - 1 -> {0, 200}]
    /\ x0 \in 0 .. ApplyX - 1
    /\ theta_min \in 0 .. SweepLen - 1
    /\ t9 \in [0 .. ApplyX - 1 -> {IntToFloat(i) : i \in -1 .. ApplyY - 1}]
    /\ t1 = t9
    /\ tmin = F32(1, 2) /\ tmax = F32(1, 2)
    /\ hist = Filled(ApplyX * ApplyY, Whole(0)) /\ hist_pre = hist /\ cumd = hist
    /\ pend = 0 .. ApplyX - 1 /\ theta_max = 0
    /\ t_pre = t9 /\ t_mid = t9
    /\ NoPixels /\ Untouched

\* raw counts of a column whose samples all fall into one value bin
PeakShapes(ny) ==
    {[y \in 0 .. ny - 1 |-> IF y = k THEN c ELSE 0] :
        k \in 0 .. ny - 1, c \in {0, 100, 200}}

\* caller: calc_cumulative_distribution(db, axis); calc_thresh(db, tmin, tmax, axis)
InitThresh ==
    /\ entry = "calc_thresh"
    /\ pc = "cumd"
    /\ hsz = [x |-> ThreshX, y |-> ThreshY, z |-> 1]
    /\ axis = 0
    /\ \E col \in [0 .. ThreshX - 1 -> PeakShapes(ThreshY)] :
            hist = SliceOf(col, 0, ThreshX, ThreshY, 1)
    /\ hist_pre = hist
    /\ cumd = Filled(ThreshX * ThreshY, Whole(0))
    /\ cnts = Filled(ThreshX, 0)
    /\ t9 = Filled(ThreshX, 0) /\ t1 = t9
    /\ \E p \in {<<F32(1, 10), F32(9, 10)>>, <<F32(1, 10), F32(1, 2)>>,
                 <<F32(1, 2), F32(1, 2)>>} : tmin = p[1] /\ tmax = p[2]
    /\ pend = 0 .. ThreshX - 1
    /\ x0 = 0 /\ theta_min = 0 /\ theta_max = 0
    /\ t_pre = t9 /\ t_mid = t9
    /\ NoPixels /\ Untouched

----------------------------------------------------------------------------
(* Specifications *)

NextHist ==
    \/ InitHistogram
    \/ \E L \in Pixels : HistPixel(L)

NextDist ==
    \/ \E x \in Columns : CumdColumn(x)
    \/ \E x \in Columns : ExactColumn(x)

NextMin == MinSamplesCall

NextCenter ==
    \/ CenterMax
    \/ \E X \in Columns : CenterIndex(X)

NextMedian ==
    \/ MedianSweep("9")
    \/ MedianDefault("9")

NextApply == \E x \in Columns : ApplyColumn("9", x)

NextThresh ==
    \/ \E x \in Columns : CumdColumn(x)
    \/ \E x \in Columns : ExactColumn(x)
    \/ CenterMax
    \/ \E X \in Columns : CenterIndex(X)
    \/ MedianSweep("9")
    \/ MedianDefault("9")
    \/ MedianSweep("1")
    \/ MedianDefault("1")
    \/ \E x \in Columns : ApplyColumn("9", x)
    \/ \E x \in Columns : ApplyColumn("1", x)

SpecHist == InitHist /\ [][NextHist]_vars

SpecDist == InitDist /\ [][NextDist]_vars

SpecMin == InitMin /\ [][NextMin]_vars

SpecCenter == InitCenter /\ [][NextCenter]_vars

SpecMedian == InitMedian /\ [][NextMedian]_vars

SpecApply == InitApply /\ [][NextApply]_vars

SpecThresh == InitThresh /\ [][NextThresh]_vars

\* the whole pipeline is the default specification
Spec == SpecThresh

----------------------------------------------------------------------------
(* Claims *)

Done(e) == entry = e /\ pc = "done"

\* pixels that are not masked and fall into statistic bin X, value bin Y
PixelsIn(X, Y) ==
    {L \in Pixels :
        /\ gmap[L] # "bad_pix"
        /\ data2hist(lmed[L], dmin, dmax, hsz.x) = X
        /\ data2hist(data[L], dmin, dmax, hsz.y) = Y}

RECURSIVE ColumnTotal(_, _, _)
ColumnTotal(h, X, y) ==
    IF y < 0 THEN 0 ELSE ColumnTotal(h, X, y - 1) + h[HIndex(axis, y, X)][1]

\* C1: after init_histogram and calc_histogram(axis), whatever the order of
\* the atomic per-pixel increments, every bin of slice axis holds the number
\* of non-masked pixels mapped to it (a whole, non-negative count), and each
\* statistic column sums to the number of non-masked pixels mapped to it.
C1_HistogramCounts ==
    Done("calc_histogram") =>
        \A X \in Columns :
            /\ \A Y \in Rows :
                   /\ hist[HIndex(axis, Y, X)] = Whole(Cardinality(PixelsIn(X, Y)))
                   /\ hist[HIndex(axis, Y, X)][1] >= 0
            /\ ColumnTotal(hist, X, hsz.y - 1) =
                   Cardinality(UNION {PixelsIn(X, Y) : Y \in Rows})

\* two pixels were counted into the same bin
C1_Witness ==
    /\ Done("calc_histogram")
    /\ \E X \in Columns, Y \in Rows : hist[HIndex(axis, Y, X)] = Whole(2)

\* C2: after calc_cumulative_distribution(axis) on raw counts, per column x:
\* cnts holds the raw column sum, cumd is non-decreasing in y and within
\* [0, 1], is exactly 1 at the last bin when the sum is not 0, and cumd and
\* hist are exactly 0 throughout the column when the sum is 0.
C2_CumulativeDistribution ==
    (entry = "calc_exact_thresh" /\ pc # "cumd") =>
        \A x \in Columns :
            LET sum == ColumnTotal(hist_pre, x, hsz.y - 1)
                last == cumd[HIndex(axis, hsz.y - 1, x)]
            IN  /\ cnts[x + hsz.x * axis] = sum
                /\ \A y \in Rows :
                       LET c == cumd[HIndex(axis, y, x)]
                       IN  /\ 0 <= c[1] /\ c[1] <= c[2]
                           /\ y > 0 => QLeq(cumd[HIndex(axis, y - 1, x)], c)
                /\ sum # 0 => last[1] = last[2]
                /\ sum = 0 =>
                       \A y \in Rows :
                           /\ cumd[HIndex(axis, y, x)] = Whole(0)
                           /\ hist[HIndex(axis, y, x)] = Whole(0)

\* the distribution was built for an empty column and for a column whose
\* samples are spread over two bins
C2_Witness ==
    /\ entry = "calc_exact_thresh" /\ pc = "exact"
    /\ \E x \in Columns : cnts[x + hsz.x * axis] = 0
    /\ \E x \in Columns, y \in Rows :
           LET c == cumd[HIndex(axis, y, x)] IN 0 < c[1] /\ c[1] < c[2]

\* value bins of column x whose cumulative distribution exceeds the cutoff T
Crossings(x, T) == {y \in Rows : FGreater(cumd[HIndex(axis, y, x)], T)}

Lowest(S) == CHOOSE y \in S : \A z \in S : y <= z

\* column x holds all its samples in the one value bin k
SingleBin(x, k) ==
    /\ hist_pre[HIndex(axis, k, x)][1] > 0
    /\ \A y \in Rows \ {k} : hist_pre[HIndex(axis, y, x)][1] = 0

\* C8: after calc_exact_thresh(tmin, tmax, axis), tmin <= tmax, per column x:
\* t9 is one below the first bin whose cumd exceeds tmin and t1 is the first
\* bin, scanning from 0, whose cumd exceeds tmax; without a tmin crossing
\* t9 = x - 1 and t1 = x; without a tmax crossing t1 = x; a column with all
\* samples in bin k gets t9 = k - 1, t1 = k when tmax < 1.
C8_ExactThresholds ==
    Done("calc_exact_thresh") =>
        \A x \in Columns :
            LET T == TIndex(axis, x)
                lo == Crossings(x, tmin)
                up == Crossings(x, tmax)
            IN  /\ lo # {} => t9[T] = IntToFloat(Lowest(lo) - 1)
                /\ (lo # {} /\ up # {}) => t1[T] = IntToFloat(Lowest(up))
                /\ lo = {} => (t9[T] = IntToFloat(x - 1) /\ t1[T] = IntToFloat(x))
                /\ up = {} => t1[T] = IntToFloat(x)
                /\ \A k \in Rows :
                       (SingleBin(x, k) /\ tmax < TUnit) =>
                           (t9[T] = IntToFloat(k - 1) /\ t1[T] = IntToFloat(k))

\* one column crosses both cutoffs in the same bin, another crosses them in
\* different bins, and a third case, an empty column, keeps the sentinels
C8_Witness ==
    /\ Done("calc_exact_thresh")
    /\ tmin < tmax
    /\ \E x \in Columns :
           /\ Crossings(x, tmin) # {}
           /\ Crossings(x, tmax) # {}
           /\ Lowest(Crossings(x, tmin)) < Lowest(Crossings(x, tmax))
    /\ \E x \in Columns :
           /\ Crossings(x, tmin) # {}
           /\ Crossings(x, tmin) = Crossings(x, tmax)

\* column x is not above the line through (x0, t[x0]) with slope Tan(k),
\* in exact arithmetic
NotAboveLine(t, x, k) ==
    t[TIndex(axis, x)] - t[TIndex(axis, x0)] <= Tan(k) * (x - x0)

\* at angle k at least half of the significant columns are not above the line
HalfBelow(t, thresh, k) ==
    LET sig == Significant(thresh)
        below == {x \in sig : NotAboveLine(t, x, k)}
    IN  sig # {} /\ 2 * Cardinality(below) >= Cardinality(sig)

\* C3: median_extrapolation returns the first angle of the sweep at which at
\* least half of the columns with cnts > min_samples(thresh) are not above
\* the line through (x0, t[x0]) with slope tan(theta), returns 0 when no
\* angle of the sweep does, and the sweep ends within its number of angles.
C3_FirstAngle ==
    Done("median_extrapolation") =>
        LET good == {k \in 0 .. SweepLen - 1 : HalfBelow(t9, tmin, k)}
        IN  /\ good # {} => theta_min = Lowest(good)
            /\ good = {} => theta_min = 0
            /\ steps <= SweepLen

\* C4: after apply_extrap_thresh every column below min_samples(thresh) holds
\* the clamped value of the one line through the anchor (x0, t[x0]) as it was
\* before the call, and every other column is unchanged.
C4_OneLineThroughAnchor ==
    (entry = "apply_extrap_thresh" /\ pc \in {"reapply9", "done"}) =>
        \A x \in Columns :
            LET T == TIndex(axis, x)
            IN  IF cnts[T] < min_samples(tmin)
                THEN t_mid[T] = Clamp(LineThroughAnchor(t_pre, x0, theta_min, x))
                ELSE t_mid[T] = t_pre[T]

\* C5: a second application of apply_extrap_thresh with the same thresh, x0
\* and theta leaves every column as the first application left it.
C5_Idempotent ==
    Done("apply_extrap_thresh") => t9 = t_mid

\* C6 as stated: min_samples(0.5) is at least min_samples(0.1) and
\* min_samples(0.9).
C6_LargestAtHalf ==
    (Done("min_samples") /\ tmin = F32(1, 2) /\ tmax \in {F32(1, 10), F32(9, 10)}) =>
        min_cnts[1] >= min_cnts[2]

\* C6 amended: min_samples is smallest at 0.5: min_samples(0.5) is at most
\* min_samples(0.1) and at most min_samples(0.9).
C6_SmallestAtHalf ==
    (Done("min_samples") /\ tmin = F32(1, 2) /\ tmax \in {F32(1, 10), F32(9, 10)}) =>
        min_cnts[1] <= min_cnts[2]

\* min_samples was called for 0.5 and for 0.9
C6_Witness ==
    /\ Done("min_samples")
    /\ tmin = F32(1, 2) /\ tmax = F32(9, 10)
    /\ min_cnts[1] = 30 /\ min_cnts[2] > 100

\* the least whole number that is >= 15 / min(1 - thresh, thresh)
CeilQuotient(thresh) ==
    LET interval == Min(TUnit - thresh, thresh)
        A == sigma * TUnit
    IN  IF A % interval = 0 THEN A \div interval ELSE A \div interval + 1

\* C7: min_samples(thresh) equals ceil(15 / min(1 - thresh, thresh)).
C7_Ceiling ==
    Done("min_samples") => min_cnts[1] = CeilQuotient(tmin)

\* C9: calc_hist_center returns a column holding the largest count, and the
\* last (highest) such column when several tie, in every execution order.
C9_LastTiedIndex ==
    Done("calc_hist_center") =>
        LET tied == {X \in Columns :
                        \A Z \in Columns : cnts[TIndex(axis, Z)] <= cnts[TIndex(axis, X)]}
        IN  /\ x0 \in tied
            /\ \A X \in tied : X <= x0

\* C10: after calc_thresh(tmin, tmax, axis), tmin <= tmax < 1, the lower
\* threshold is nowhere above the upper threshold.
C10_NoCrossing ==
    Done("calc_thresh") =>
        \A x \in Columns : t9[TIndex(axis, x)] <= t1[TIndex(axis, x)]

====
